---- MODULE Spec2Model ----
(***************************************************************************)
(* Model of the F1 Race Replay backend: the HTTP handlers of               *)
(* backend/main.py and the data-access functions of                        *)
(* backend/services/f1_data_service.py.                                    *)
(*                                                                         *)
(* Every handler is an "async def" without an await, so one request is     *)
(* handled in one atomic step: an action draws the request's parameters    *)
(* and the behaviour of the FastF1 library for that request, and sets the  *)
(* request, the calls made into the service layer and the HTTP response.   *)
(***************************************************************************)
EXTENDS Integers, Sequences, FiniteSets, TLC

VARIABLES
    req,     \* the request being answered: endpoint and parameters
    calls,   \* the service-layer / library calls the handler made, in order
    resp,    \* the HTTP response: [code, body]
    pending, \* the clients whose simultaneous requests wait for the handler
    served   \* per client, what its handler was given, called and answered

vars == <<req, calls, resp, pending, served>>

----------------------------------------------------------------------------
(* Bounds of the model                                                     *)

MaxYear == 2022         \* latest year the clock shows
MaxTypeLen == 3         \* longest session_type string of /api/session
MaxEvents == 2          \* longest event schedule
MaxClients == 3         \* most simultaneous requests for one session

----------------------------------------------------------------------------
(* Python values                                                           *)

\* Python's None
None == [t |-> "None"]

\* a str object with the text s
PyStr(s) == [t |-> "str", v |-> s]

\* a str object given by its characters (a parameter that gets upper-cased)
PyChars(s) == [t |-> "chars", v |-> s]

\* an f-string: its literal text and the values interpolated into it
PyFmt(template, args) == [t |-> "str", v |-> template, args |-> args]

\* Python truthiness as used by "if error:" and "if lap_number:"
Truthy(x) ==
    CASE x.t = "None" -> FALSE
      [] x.t = "str"  -> ~(x.v = "" /\ "args" \notin DOMAIN x)
      [] x.t = "chars" -> x.v # <<>>
      [] x.t = "int"  -> x.v # 0
      [] OTHER        -> TRUE

\* a raised exception, and an exception object built from its args
Raises(e) == [t |-> "raise", exc |-> e]
Exc(args) == [args |-> args]

\* str(e): the empty string for an exception without args, else its message
StrExc(e) == IF e.args = <<>> THEN "" ELSE e.args[1]

\* the exceptions the library raises in the model
Exceptions == {Exc(<<>>), Exc(<<"boom">>)}

\* AttributeError raised by an attribute access on None
AttributeErrorOnNone == Exc(<<"'NoneType' object has no attribute">>)

\* a pandas DataFrame with the given rows
Frame(rows) == [t |-> "Frame", rows |-> rows]

\* str.upper() of one character; U017F is the long s, whose upper case is S
UpperChar(c) ==
    CASE c = "f" -> "F" [] c = "p" -> "P" [] c = "q" -> "Q"
      [] c = "s" -> "S" [] c = "r" -> "R" [] c = "x" -> "X"
      [] c = "U017F" -> "S"
      [] c = "v" -> "V" [] c = "e" -> "E" [] c = "h" -> "H"
      [] c = "a" -> "A" [] c = "m" -> "M"
      [] OTHER -> c

\* str.upper() of a string, a sequence of characters
Upper(s) == [i \in 1..Len(s) |-> UpperChar(s[i])]

\* all sequences over S of length at most n
RECURSIVE SeqsUpTo(_, _)
SeqsUpTo(S, n) ==
    IF n = 0 THEN {<<>>}
    ELSE LET shorter == SeqsUpTo(S, n - 1)
         IN  shorter \cup {Append(s, c) : s \in {x \in shorter : Len(x) = n - 1}, c \in S}

----------------------------------------------------------------------------
(* The error handlers of main.py                                           *)

\* no request is being handled
NoRequest == [endpoint |-> "none"]

\* datetime.now().isoformat()
NowIso == "now"

\* http_exception_handler: the body of every HTTPException
HttpError(code, detail) ==
    [code |-> code,
     body |-> [error |-> TRUE, status_code |-> code, message |-> detail,
               timestamp |-> NowIso]]

\* general_exception_handler: an exception that escaped the handler
UnexpectedError ==
    [code |-> 500,
     body |-> [error |-> TRUE, status_code |-> 500,
               message |-> PyStr("An unexpected error occurred"),
               timestamp |-> NowIso]]

\* a handler that returned a dict
Ok(body) == [code |-> 200, body |-> body]

----------------------------------------------------------------------------
(* /api/races/{season}                                                     *)

FirstSeason == 2018

\* the years datetime.now().year may show, and the seasons requested
ClockYears == (FirstSeason - 1)..MaxYear
SeasonInputs == (FirstSeason - 2)..(MaxYear + 2)

\* event names, as sequences of words
EventNames == {<<"Bahrain", "Grand", "Prix">>, <<"Pre-Season", "Testing">>}

\* the RoundNumber column: a number, or NaN
NaN == [t |-> "NaN"]
RoundNumbers == {[t |-> "int", v |-> 1], [t |-> "int", v |-> 2], NaN}

\* "Testing" in str(event.get("EventName", ""))
ContainsTesting(name) == \E i \in 1..Len(name) : name[i] = "Testing"

\* what fastf1.get_event_schedule(season) does: raises or returns the events
Schedules ==
    {Raises(e) : e \in Exceptions} \cup
    {Frame(ev) : ev \in SeqsUpTo([EventName : EventNames, RoundNumber : RoundNumbers], MaxEvents)}

\* int(NaN) raises ValueError
IntOfNaN == Exc(<<"cannot convert float NaN to integer">>)

\* the loop raises at the first event that is not a test and has no round
LoopRaises(events) ==
    \E i \in 1..Len(events) :
        ~ContainsTesting(events[i].EventName) /\ events[i].RoundNumber.t = "NaN"

\* the loop of get_race_schedule: one record per event that is not a test
RECURSIVE RaceRecords(_)
RaceRecords(events) ==
    IF events = <<>> THEN <<>>
    ELSE LET event == Head(events)
             rest  == RaceRecords(Tail(events))
         IN  IF ContainsTesting(event.EventName) THEN rest
             ELSE <<[round |-> event.RoundNumber.v, name |-> event.EventName]>> \o rest

\* get_race_schedule without the test that skips testing events
get_race_schedule_KeepTesting(season, schedule) ==
    IF schedule.t = "raise"
    THEN [season |-> season, races |-> <<>>, total_races |-> 0,
          status |-> "error", error_message |-> PyStr(StrExc(schedule.exc))]
    ELSE IF \E i \in 1..Len(schedule.rows) : schedule.rows[i].RoundNumber.t = "NaN"
    THEN [season |-> season, races |-> <<>>, total_races |-> 0,
          status |-> "error", error_message |-> PyStr(StrExc(IntOfNaN))]
    ELSE LET races == [i \in 1..Len(schedule.rows) |->
                          [round |-> schedule.rows[i].RoundNumber.v,
                           name  |-> schedule.rows[i].EventName]]
         IN  [season |-> season, races |-> races, total_races |-> Len(races),
              status |-> "success"]

get_race_schedule(season, schedule) ==
    IF schedule.t = "raise"
    THEN [season |-> season, races |-> <<>>, total_races |-> 0,
          status |-> "error", error_message |-> PyStr(StrExc(schedule.exc))]
    ELSE IF LoopRaises(schedule.rows)
    THEN [season |-> season, races |-> <<>>, total_races |-> 0,
          status |-> "error", error_message |-> PyStr(StrExc(IntOfNaN))]
    ELSE LET races == RaceRecords(schedule.rows)
         IN  [season |-> season, races |-> races, total_races |-> Len(races),
              status |-> "success"]

\* get_races_in_season with the upper bound of the range check excluded
get_races_in_season_StrictUpper(season, current_year, schedule) ==
    IF season < FirstSeason \/ season >= current_year
    THEN [calls |-> <<>>,
          resp  |-> HttpError(400, PyFmt("Season must be between 2018 and {}", <<current_year>>))]
    ELSE LET result == get_race_schedule(season, schedule)
         IN  [calls |-> <<[fn |-> "get_race_schedule", season |-> season,
                           schedule |-> schedule, ret |-> result]>>,
              resp  |-> IF result.status = "error"
                        THEN HttpError(500, result.error_message)
                        ELSE Ok(result)]

\* the handler: its calls and its response
get_races_in_season(season, current_year, schedule) ==
    IF season < FirstSeason \/ season > current_year
    THEN [calls |-> <<>>,
          resp  |-> HttpError(400, PyFmt("Season must be between 2018 and {}", <<current_year>>))]
    ELSE LET result == get_race_schedule(season, schedule)
         IN  [calls |-> <<[fn |-> "get_race_schedule", season |-> season,
                           schedule |-> schedule, ret |-> result]>>,
              resp  |-> IF result.status = "error"
                        THEN HttpError(500, result.error_message)
                        ELSE Ok(result)]

GetRaces ==
    /\ req = NoRequest
    /\ UNCHANGED <<pending, served>>
    /\ \E season \in SeasonInputs, current_year \in ClockYears, schedule \in Schedules :
        LET out == get_races_in_season(season, current_year, schedule)
        IN  /\ req' = [endpoint |-> "races", season |-> season,
                       current_year |-> current_year]
            /\ calls' = out.calls
            /\ resp' = out.resp

----------------------------------------------------------------------------
(* Sessions of the FastF1 library                                          *)

SessionSeason == 2023
MaxRound == 1           \* largest round number requested

\* driver abbreviations, as strings of characters
VER == <<"V", "E", "R">>
HAM == <<"H", "A", "M">>

\* a lap time: a pandas Timedelta in milliseconds, or NaT
NaT == [t |-> "NaT"]
Timedelta(ms) == [t |-> "Timedelta", ms |-> ms]

\* pd.notna(x): x is neither None nor NaT/NaN
notna(x) == x.t # "None" /\ x.t # "NaT"

\* one row of session.laps
Lap(driver, number, time, telemetry) ==
    [Driver |-> driver, LapNumber |-> number, LapTime |-> time,
     Telemetry |-> telemetry]

\* one row of session.results
ResultRow(number, code, team) ==
    [DriverNumber |-> number, Abbreviation |-> code, TeamName |-> team]

\* a loaded session object; results and laps are what the attribute access
\* gives: a raised exception, None or a DataFrame
Session(results, laps) ==
    [t |-> "Session", name |-> "Race", event |-> "Bahrain Grand Prix",
     results |-> results, laps |-> laps]

\* obj.name: AttributeError on None
GetAttr(obj, name) ==
    IF obj.t = "None" THEN Raises(AttributeErrorOnNone) ELSE obj[name]

\* the results and the laps of the sessions served to /api/session and
\* /api/drivers
ResultsAttrs ==
    {Raises(Exc(<<"boom">>)), None, Frame(<<>>),
     Frame(<<ResultRow("1", VER, "Red Bull")>>),
     Frame(<<ResultRow("44", HAM, "Mercedes"), ResultRow("1", VER, "Red Bull")>>)}

LapsAttrs ==
    {Raises(Exc(<<"boom">>)), None, Frame(<<>>),
     Frame(<<Lap(VER, 1, Timedelta(90000), None)>>),
     Frame(<<Lap(VER, 1, Timedelta(90000), None), Lap(HAM, 1, NaT, None),
             Lap(VER, 2, Timedelta(89000), None)>>)}

\* what fastf1.get_session(...) followed by session.load(...) does
DriverSessions ==
    {Raises(e) : e \in Exceptions} \cup
    {Session(r, l) : r \in ResultsAttrs, l \in LapsAttrs}

\* the clients of simultaneous requests
Clients == 1..MaxClients

\* load_session keeping the first result of the process for later requests
load_session_Cached(season, race_round, session_type, load_telemetry, outcome) ==
    IF \E c \in Clients : served[c].calls # <<>>
    THEN served[CHOOSE c \in Clients : served[c].calls # <<>>].calls[1].ret
    ELSE IF outcome.t = "raise"
    THEN [session |-> None, error |-> PyStr(StrExc(outcome.exc))]
    ELSE [session |-> outcome, error |-> None]

\* load_session: (session, None), or (None, str(e)) when the library raises
load_session(season, race_round, session_type, load_telemetry, outcome) ==
    IF outcome.t = "raise"
    THEN [session |-> None, error |-> PyStr(StrExc(outcome.exc))]
    ELSE [session |-> outcome, error |-> None]

\* the entry of the call log for one load_session call
LoadCall(season, race_round, session_type, load_telemetry, outcome) ==
    [fn |-> "load_session", season |-> season, race_round |-> race_round,
     session_type |-> session_type, load_telemetry |-> load_telemetry,
     ret |-> load_session(season, race_round, session_type, load_telemetry, outcome)]

\* get_session_info has no try block: the attribute access raises on None
get_session_info(session) ==
    IF session.t = "None" THEN Raises(AttributeErrorOnNone)
    ELSE [t |-> "dict", v |-> [name |-> session.name, event |-> session.event]]

\* the dict get_session_results builds for one result row
ResultRecord(driver) ==
    [driver_number |-> driver.DriverNumber, driver_code |-> driver.Abbreviation,
     team |-> driver.TeamName]

get_session_results(session) ==
    LET results == GetAttr(session, "results")
    IN  IF results.t = "raise" THEN <<>>
        ELSE IF results.t = "None" \/ results.rows = <<>> THEN <<>>
        ELSE [i \in 1..Len(results.rows) |-> ResultRecord(results.rows[i])]

\* Series.unique(): the distinct values in order of first appearance
RECURSIVE Unique(_)
Unique(s) ==
    IF s = <<>> THEN <<>>
    ELSE LET init == Unique(SubSeq(s, 1, Len(s) - 1))
             last == s[Len(s)]
         IN  IF \E i \in 1..Len(init) : init[i] = last THEN init
             ELSE Append(init, last)

\* the dict get_driver_info builds for one result row
DriverRecord(driver) ==
    [driver_number |-> driver.DriverNumber, driver_code |-> driver.Abbreviation,
     team |-> driver.TeamName]

\* get_driver_info with one fallback entry per lap instead of per driver
get_driver_info_NoUnique(session) ==
    LET results == GetAttr(session, "results")
        laps    == GetAttr(session, "laps")
    IN  IF results.t = "raise"
        THEN [ret |-> <<>>, reads |-> <<"results">>]
        ELSE IF results.t = "None" \/ results.rows = <<>>
        THEN IF laps.t = "raise"
             THEN [ret |-> <<>>, reads |-> <<"results", "laps">>]
             ELSE IF laps.t = "None" \/ laps.rows = <<>>
             THEN [ret |-> <<>>, reads |-> <<"results", "laps">>]
             ELSE [ret |-> [i \in 1..Len(laps.rows) |-> [driver_code |-> laps.rows[i].Driver]],
                   reads |-> <<"results", "laps">>]
        ELSE [ret |-> [i \in 1..Len(results.rows) |-> DriverRecord(results.rows[i])],
              reads |-> <<"results">>]

\* get_driver_info: the list it returns and the session attributes it read
get_driver_info(session) ==
    LET results == GetAttr(session, "results")
        laps    == GetAttr(session, "laps")
    IN  IF results.t = "raise"
        THEN [ret |-> <<>>, reads |-> <<"results">>]
        ELSE IF results.t = "None" \/ results.rows = <<>>
        THEN IF laps.t = "raise"
             THEN [ret |-> <<>>, reads |-> <<"results", "laps">>]
             ELSE IF laps.t = "None" \/ laps.rows = <<>>
             THEN [ret |-> <<>>, reads |-> <<"results", "laps">>]
             ELSE LET drivers == Unique([i \in 1..Len(laps.rows) |-> laps.rows[i].Driver])
                  IN  [ret |-> [i \in 1..Len(drivers) |-> [driver_code |-> drivers[i]]],
                       reads |-> <<"results", "laps">>]
        ELSE [ret |-> [i \in 1..Len(results.rows) |-> DriverRecord(results.rows[i])],
              reads |-> <<"results">>]

----------------------------------------------------------------------------
(* /api/session/{season}/{race_round}/{session_type}                       *)

\* the characters of the session_type strings requested
TypeAlphabet ==
    {"F", "f", "P", "p", "Q", "q", "R", "r", "S", "s", "1", "2", "U017F"}

SessionTypeInputs == SeqsUpTo(TypeAlphabet, MaxTypeLen)

valid_sessions ==
    {<<"F", "P", "1">>, <<"F", "P", "2">>, <<"F", "P", "3">>, <<"Q">>, <<"S">>, <<"R">>}

\* get_session_data validating the session type as typed, not upper-cased
get_session_data_NoUpper(season, race_round, session_type, outcome) ==
    LET loaded  == load_session(season, race_round, session_type, FALSE, outcome)
        loadlog == <<LoadCall(season, race_round, session_type, FALSE, outcome)>>
        session == loaded.session
        info    == get_session_info(session)
        drivers == get_driver_info(session)
    IN  IF session_type \notin valid_sessions
        THEN [calls |-> <<>>,
              resp  |-> HttpError(400, PyStr("Invalid session type. Must be one of: FP1, FP2, FP3, Q, S, R"))]
        ELSE IF Truthy(loaded.error)
        THEN [calls |-> loadlog, resp |-> HttpError(500, loaded.error)]
        ELSE IF info.t = "raise"
        THEN [calls |-> loadlog, resp |-> UnexpectedError]
        ELSE [calls |-> loadlog \o <<[fn |-> "get_driver_info", reads |-> drivers.reads]>>,
              resp  |-> Ok([season |-> season, round |-> race_round,
                            session_type |-> session_type, info |-> info.v,
                            results |-> get_session_results(session),
                            drivers |-> drivers.ret, status |-> "success"])]

get_session_data(season, race_round, session_type, outcome) ==
    LET session_type_upper == Upper(session_type)
        loaded  == load_session(season, race_round, session_type_upper, FALSE, outcome)
        loadlog == <<LoadCall(season, race_round, session_type_upper, FALSE, outcome)>>
        session == loaded.session
        info    == get_session_info(session)
        drivers == get_driver_info(session)
    IN  IF session_type_upper \notin valid_sessions
        THEN [calls |-> <<>>,
              resp  |-> HttpError(400, PyStr("Invalid session type. Must be one of: FP1, FP2, FP3, Q, S, R"))]
        ELSE IF Truthy(loaded.error)
        THEN [calls |-> loadlog, resp |-> HttpError(500, loaded.error)]
        ELSE IF info.t = "raise"
        THEN [calls |-> loadlog, resp |-> UnexpectedError]
        ELSE [calls |-> loadlog \o <<[fn |-> "get_driver_info", reads |-> drivers.reads]>>,
              resp  |-> Ok([season |-> season, round |-> race_round,
                            session_type |-> session_type_upper, info |-> info.v,
                            results |-> get_session_results(session),
                            drivers |-> drivers.ret, status |-> "success"])]

GetSession ==
    /\ req = NoRequest
    /\ UNCHANGED <<pending, served>>
    /\ \E race_round \in 1..MaxRound, session_type \in SessionTypeInputs,
          outcome \in DriverSessions :
        LET out == get_session_data(SessionSeason, race_round, session_type, outcome)
        IN  /\ req' = [endpoint |-> "session", season |-> SessionSeason,
                       race_round |-> race_round, session_type |-> session_type]
            /\ calls' = out.calls
            /\ resp' = out.resp

----------------------------------------------------------------------------
(* /api/laps/{season}/{race_round}/{session_type}                          *)

MaxLaps == 22           \* most laps in a session served to /api/laps
MaxSeed == 3            \* number of lap-time patterns
top_n == 20

\* the lap time of the i-th row of a session: unsorted and with ties for
\* every seed, NaT rows for even seeds, slow laps for seeds divisible by 3
LapTimeOf(i, seed) ==
    IF seed % 2 = 0 /\ i % 3 = 0 THEN NaT
    ELSE IF seed % 3 = 0 /\ i % 4 = 1 THEN Timedelta(120000 + i)
    ELSE Timedelta(90000 + 100 * ((i * (seed + 6)) % 11))

\* a session of n laps driven in turn by VER and HAM
LapRows(n, seed) ==
    [i \in 1..n |-> Lap(IF i % 2 = 1 THEN VER ELSE HAM, (i + 1) \div 2,
                        LapTimeOf(i, seed), None)]

\* what the library loads for a request to /api/laps
LapSessions ==
    {Raises(e) : e \in Exceptions} \cup
    {Session(Frame(<<>>), l) : l \in {Raises(Exc(<<"boom">>)), None}} \cup
    {Session(Frame(<<>>), Frame(LapRows(n, seed))) : n \in 0..MaxLaps, seed \in 1..MaxSeed}

\* str(Timedelta): the text "0 days 00:MM:SS.mmm000", by its fields
StrTimedelta(td) ==
    PyStr([minutes |-> td.ms \div 60000, seconds |-> (td.ms % 60000) \div 1000,
           millis |-> td.ms % 1000])

\* Timedelta.total_seconds(): a float, here in thousandths of a second
total_seconds(td) == [t |-> "float", thousandths |-> td.ms]

\* Laps.pick_driver(code): the rows of that driver
pick_driver(rows, code) == SelectSeq(rows, LAMBDA lap : lap.Driver = code)

\* LapRecord with the seconds of an untimed lap defaulted to 0
LapRecord_ZeroSeconds(lap) ==
    [lap_number |-> lap.LapNumber,
     driver |-> lap.Driver,
     lap_time |-> IF notna(lap.LapTime) THEN StrTimedelta(lap.LapTime) ELSE None,
     lap_time_seconds |-> IF notna(lap.LapTime) THEN total_seconds(lap.LapTime)
                          ELSE [t |-> "float", thousandths |-> 0]]

\* the dict get_all_laps builds for one lap
LapRecord(lap) ==
    [lap_number |-> lap.LapNumber,
     driver |-> lap.Driver,
     lap_time |-> IF notna(lap.LapTime) THEN StrTimedelta(lap.LapTime) ELSE None,
     lap_time_seconds |-> IF notna(lap.LapTime) THEN total_seconds(lap.LapTime) ELSE None]

\* get_all_laps filtering by the driver code as given, not upper-cased
get_all_laps_NoUpper(session, driver_code) ==
    LET laps == GetAttr(session, "laps")
    IN  IF laps.t = "raise" THEN <<>>
        ELSE IF laps.t = "None" \/ laps.rows = <<>> THEN <<>>
        ELSE LET rows == IF Truthy(driver_code)
                         THEN pick_driver(laps.rows, driver_code.v)
                         ELSE laps.rows
             IN  [i \in 1..Len(rows) |-> LapRecord(rows[i])]

get_all_laps(session, driver_code) ==
    LET laps == GetAttr(session, "laps")
    IN  IF laps.t = "raise" THEN <<>>
        ELSE IF laps.t = "None" \/ laps.rows = <<>> THEN <<>>
        ELSE LET rows == IF Truthy(driver_code)
                         THEN pick_driver(laps.rows, Upper(driver_code.v))
                         ELSE laps.rows
             IN  [i \in 1..Len(rows) |-> LapRecord(rows[i])]

\* the smallest lap time of the rows, NaT when none is timed
MinLapTime(rows) ==
    LET timed == {i \in 1..Len(rows) : notna(rows[i].LapTime)}
    IN  IF timed = {} THEN NaT
        ELSE rows[CHOOSE i \in timed : \A j \in timed : rows[i].LapTime.ms <= rows[j].LapTime.ms].LapTime

\* Laps.pick_quicklaps(): the laps faster than 107% of the fastest lap
pick_quicklaps(rows) ==
    LET fastest == MinLapTime(rows)
    IN  SelectSeq(rows, LAMBDA lap : /\ notna(fastest)
                                     /\ notna(lap.LapTime)
                                     /\ lap.LapTime.ms * 100 < fastest.ms * 107)

\* DataFrame.sort_values("LapTime"): ascending; the sort is not stable, and
\* keepOrder tells whether rows of equal lap time keep their order
RECURSIVE InsertLap(_, _, _)
InsertLap(sorted, lap, keepOrder) ==
    IF sorted = <<>> THEN <<lap>>
    ELSE IF \/ lap.LapTime.ms < Head(sorted).LapTime.ms
            \/ (~keepOrder /\ lap.LapTime.ms = Head(sorted).LapTime.ms)
         THEN <<lap>> \o sorted
         ELSE <<Head(sorted)>> \o InsertLap(Tail(sorted), lap, keepOrder)

RECURSIVE sort_values(_, _)
sort_values(rows, keepOrder) ==
    IF rows = <<>> THEN <<>>
    ELSE InsertLap(sort_values(SubSeq(rows, 1, Len(rows) - 1), keepOrder),
                   rows[Len(rows)], keepOrder)

\* DataFrame.head(n)
head(rows, n) == SubSeq(rows, 1, IF Len(rows) < n THEN Len(rows) ELSE n)

\* the dict get_fastest_laps builds for the lap of the given rank
FastestRecord(rank, lap) ==
    [rank |-> rank, driver |-> lap.Driver, lap_number |-> lap.LapNumber,
     lap_time |-> StrTimedelta(lap.LapTime)]

\* get_fastest_laps with enumerate() counting from 0
get_fastest_laps_RankFromZero(session, n, keepOrder) ==
    LET laps == GetAttr(session, "laps")
    IN  IF laps.t = "raise" \/ laps.t = "None" THEN <<>>
        ELSE LET quick == pick_quicklaps(laps.rows)
                 top   == head(sort_values(quick, keepOrder), n)
             IN  IF quick = <<>> THEN <<>>
                 ELSE [rank \in 1..Len(top) |-> FastestRecord(rank - 1, top[rank])]

get_fastest_laps(session, n, keepOrder) ==
    LET laps == GetAttr(session, "laps")
    IN  IF laps.t = "raise" \/ laps.t = "None" THEN <<>>
        ELSE LET quick == pick_quicklaps(laps.rows)
                 top   == head(sort_values(quick, keepOrder), n)
             IN  IF quick = <<>> THEN <<>>
                 ELSE [rank \in 1..Len(top) |-> FastestRecord(rank, top[rank])]

\* the driver query parameter: absent, or a string
DriverFilters == {None, PyChars(<<>>), PyChars(<<"v", "e", "r">>), PyChars(HAM)}

\* the session_type strings sent to the endpoints that do not validate them
OtherTypeInputs == {<<"r">>, <<"x">>}

get_lap_data(season, race_round, session_type, driver, fastest_only, outcome, keepOrder) ==
    LET loaded  == load_session(season, race_round, Upper(session_type), FALSE, outcome)
        loadlog == <<LoadCall(season, race_round, Upper(session_type), FALSE, outcome)>>
        laps    == IF fastest_only
                   THEN get_fastest_laps(loaded.session, top_n, keepOrder)
                   ELSE get_all_laps(loaded.session, driver)
    IN  IF Truthy(loaded.error)
        THEN [calls |-> loadlog, resp |-> HttpError(500, loaded.error)]
        ELSE [calls |-> loadlog,
              resp  |-> Ok([season |-> season, round |-> race_round,
                            session_type |-> Upper(session_type),
                            driver_filter |-> driver, fastest_only |-> fastest_only,
                            laps |-> laps, total_laps |-> Len(laps),
                            status |-> "success"])]

GetLaps ==
    /\ req = NoRequest
    /\ UNCHANGED <<pending, served>>
    /\ \E race_round \in 1..MaxRound, session_type \in OtherTypeInputs,
          driver \in DriverFilters, fastest_only \in BOOLEAN,
          outcome \in LapSessions, keepOrder \in BOOLEAN :
        LET out == get_lap_data(SessionSeason, race_round, session_type, driver,
                                fastest_only, outcome, keepOrder)
        IN  /\ req' = [endpoint |-> "laps", season |-> SessionSeason,
                       race_round |-> race_round, session_type |-> session_type,
                       driver |-> driver, fastest_only |-> fastest_only]
            /\ calls' = out.calls
            /\ resp' = out.resp

----------------------------------------------------------------------------
(* /api/telemetry/{season}/{race_round}/{session_type}/{driver}            *)

MaxLen == 1001          \* most samples in the telemetry of a lap
Window == 5             \* distance of the long laps' lengths to a multiple of the target
TargetPoints == 500

\* the lengths of long telemetry: those within Window of a multiple of the
\* target, where the sample rate changes
LengthsNear(target) ==
    {n \in 1..MaxLen : n % target <= Window \/ n % target >= target - Window}

SAI == <<"S", "A", "I">>

\* the columns of a lap's telemetry
RequiredColumns == {"Distance", "Speed", "Throttle", "Brake"}
OptionalColumns == {"RPM", "nGear", "DRS", "X", "Y"}
AllColumns == RequiredColumns \cup OptionalColumns

\* the telemetry DataFrame of a lap: n samples of the given columns
Telemetry(n, columns) == [t |-> "Frame", len |-> n, columns |-> columns]

\* the value of a column in the sample of (0-based) index i
Sample(column, i) ==
    CASE column = "X" -> ((i * 7) % 13) - 6
      [] column = "Y" -> ((i * 5) % 11) - 2
      [] OTHER        -> i

\* telemetry[column].tolist()
Column(telemetry, column) == [k \in 1..telemetry.len |-> Sample(column, k - 1)]

\* len(x[::step]) for step >= 1, as the slice computes it
SliceLen(n, step) == IF n = 0 THEN 0 ELSE (n - 1) \div step + 1

\* x[::step]: the elements of index 0, step, 2*step, ...
SliceStep(x, step) == [k \in 1..SliceLen(Len(x), step) |-> x[(k - 1) * step + 1]]

\* the sample rate rounded up instead of down
SampleRate_RoundUp(n) == (n + TargetPoints - 1) \div TargetPoints

\* the sample rate computed for a target of 5000 points
SampleRate_Target5000(n) == IF n \div 5000 < 1 THEN 1 ELSE n \div 5000

\* sample_rate = max(1, len(telemetry) // 500)
SampleRate(n) == IF n \div TargetPoints < 1 THEN 1 ELSE n \div TargetPoints

\* len(telemetry[::sample_rate])
SampledPoints(n) == SliceLen(n, SampleRate(n))

\* Laps.pick_fastest(): the lap of the smallest lap time, None when no lap
\* is timed
pick_fastest(rows) ==
    LET timed == {i \in 1..Len(rows) : notna(rows[i].LapTime)}
    IN  IF timed = {} THEN None
        ELSE [t |-> "Lap",
              row |-> rows[CHOOSE i \in timed :
                               \A j \in timed :
                                   \/ rows[i].LapTime.ms < rows[j].LapTime.ms
                                   \/ (rows[i].LapTime.ms = rows[j].LapTime.ms /\ i <= j)]]

\* KeyError(column), raised by telemetry[column] for an absent column
KeyError(column) == [args |-> <<column>>, key |-> column]

\* str(e) of a caught exception; str(KeyError(k)) is the repr of k
StrCaught(e) ==
    IF "key" \in DOMAIN e THEN PyFmt("'{}'", <<e.key>>) ELSE PyStr(StrExc(e))

\* the required columns in the order the result dict reads them
RequiredOrder == <<"Distance", "Speed", "Throttle", "Brake">>

\* the first required column that the telemetry lacks
FirstMissing(columns) ==
    LET i == CHOOSE k \in 1..Len(RequiredOrder) :
                 /\ RequiredOrder[k] \notin columns
                 /\ \A j \in 1..(k - 1) : RequiredOrder[j] \in columns
    IN  RequiredOrder[i]

\* OptionalChannel with the test of the column's presence inverted
OptionalChannel_Inverted(telemetry, column, sample_rate) ==
    IF column \notin telemetry.columns
    THEN SliceStep(Column(telemetry, column), sample_rate)
    ELSE <<>>

\* OptionalChannel returning the whole column, not sampled
OptionalChannel_Unsampled(telemetry, column, sample_rate) ==
    IF column \in telemetry.columns
    THEN Column(telemetry, column)
    ELSE <<>>

\* an optional channel: the sampled column, or [] when the column is absent
OptionalChannel(telemetry, column, sample_rate) ==
    IF column \in telemetry.columns
    THEN SliceStep(Column(telemetry, column), sample_rate)
    ELSE <<>>

\* the dict of an exception caught by get_lap_telemetry
TelemetryFailure(e) == [error |-> StrCaught(e), status |-> "error"]

\* str(lap.get("LapTime", ""))
StrLapTime(time) == IF time.t = "NaT" THEN PyStr("NaT") ELSE StrTimedelta(time)

\* the part of get_lap_telemetry after the lap is selected
LapTelemetry(driver_code, lap) ==
    LET telemetry   == lap.Telemetry
        sample_rate == SampleRate(telemetry.len)
    IN  IF telemetry.t = "raise" THEN TelemetryFailure(telemetry.exc)
        ELSE IF telemetry.t = "None" \/ telemetry.len = 0
        THEN [error |-> PyStr("No telemetry data available for this lap")]
        ELSE IF ~(RequiredColumns \subseteq telemetry.columns)
        THEN TelemetryFailure(KeyError(FirstMissing(telemetry.columns)))
        ELSE [driver |-> Upper(driver_code),
              lap_number |-> lap.LapNumber,
              lap_time |-> StrLapTime(lap.LapTime),
              data_points |-> telemetry.len,
              sampled_points |-> SliceLen(telemetry.len, sample_rate),
              telemetry |->
                  [distance |-> SliceStep(Column(telemetry, "Distance"), sample_rate),
                   speed    |-> SliceStep(Column(telemetry, "Speed"), sample_rate),
                   throttle |-> SliceStep(Column(telemetry, "Throttle"), sample_rate),
                   brake    |-> SliceStep(Column(telemetry, "Brake"), sample_rate),
                   rpm      |-> OptionalChannel(telemetry, "RPM", sample_rate),
                   gear     |-> OptionalChannel(telemetry, "nGear", sample_rate),
                   drs      |-> OptionalChannel(telemetry, "DRS", sample_rate),
                   x        |-> OptionalChannel(telemetry, "X", sample_rate),
                   y        |-> OptionalChannel(telemetry, "Y", sample_rate)],
              status |-> "success"]

get_lap_telemetry(session, driver_code, lap_number) ==
    LET laps        == GetAttr(session, "laps")
        driver_laps == pick_driver(laps.rows, Upper(driver_code))
        numbered    == SelectSeq(driver_laps, LAMBDA lap : lap.LapNumber = lap_number.v)
        fastest     == pick_fastest(driver_laps)
    IN  IF laps.t = "raise" THEN TelemetryFailure(laps.exc)
        ELSE IF laps.t = "None" THEN TelemetryFailure(AttributeErrorOnNone)
        ELSE IF driver_laps = <<>>
        THEN [error |-> PyFmt("No laps found for driver {}", <<driver_code>>)]
        ELSE IF Truthy(lap_number)
        THEN IF numbered = <<>>
             THEN [error |-> PyFmt("Lap {} not found for {}", <<lap_number.v, driver_code>>)]
             ELSE LapTelemetry(driver_code, numbered[1])
        ELSE IF fastest.t = "None" THEN TelemetryFailure(AttributeErrorOnNone)
        ELSE LapTelemetry(driver_code, fastest.row)

\* dict.get(key, default)
DictGet(dict, key, default) == IF key \in DOMAIN dict THEN dict[key] ELSE default

get_driver_telemetry(season, race_round, session_type, driver, lap_number, outcome) ==
    LET loaded    == load_session(season, race_round, Upper(session_type), TRUE, outcome)
        loadlog   == <<LoadCall(season, race_round, Upper(session_type), TRUE, outcome)>>
        telemetry == get_lap_telemetry(loaded.session, Upper(driver), lap_number)
    IN  IF Truthy(loaded.error)
        THEN [calls |-> loadlog, resp |-> HttpError(500, loaded.error)]
        ELSE IF DictGet(telemetry, "status", "") = "error"
        THEN [calls |-> loadlog,
              resp  |-> HttpError(400, DictGet(telemetry, "error", PyStr("Failed to get telemetry")))]
        ELSE [calls |-> loadlog,
              resp  |-> Ok(telemetry @@ [season |-> season, round |-> race_round,
                                         session_type |-> Upper(session_type)])]

\* the lap_number query parameter: absent, or an int
PyInt(n) == [t |-> "int", v |-> n]
LapNumberInputs == {None} \cup {PyInt(n) : n \in 0..3}

\* the driver path parameter
DriverInputs == {<<"v", "e", "r">>, HAM, SAI, <<"x">>}

\* a session with laps of VER (fastest: lap 2), HAM, and SAI (never timed),
\* each lap with the given telemetry
TelemetrySession(telemetry) ==
    Session(Frame(<<>>),
            Frame(<<Lap(VER, 1, Timedelta(91000), telemetry),
                    Lap(HAM, 1, Timedelta(90500), telemetry),
                    Lap(VER, 2, Timedelta(90000), telemetry),
                    Lap(SAI, 1, NaT, telemetry)>>))

\* what lap.get_telemetry() gives for the short laps: an exception, None,
\* or a few samples with some columns absent
ShortTelemetry ==
    {Raises(Exc(<<"boom">>)), None} \cup
    {Telemetry(n, AllColumns) : n \in {0, 3}} \cup
    {Telemetry(3, AllColumns \ absent) :
        absent \in {{"RPM"}, {"X", "Y"}, OptionalColumns, {"Distance"}}}

\* the requests to /api/telemetry: every driver and lap number against the
\* short sessions, and the fastest lap of VER for the long telemetry, with
\* every column and without two of the optional ones
TelemetryRequests ==
    [session_type : OtherTypeInputs, driver : DriverInputs,
     lap_number : LapNumberInputs,
     outcome : {Raises(e) : e \in Exceptions}
               \cup {Session(Frame(<<>>), l) : l \in {Raises(Exc(<<"boom">>)), None, Frame(<<>>)}}
               \cup {TelemetrySession(tel) : tel \in ShortTelemetry}]
    \cup
    [session_type : {<<"r">>}, driver : {<<"v", "e", "r">>}, lap_number : {None},
     outcome : {TelemetrySession(Telemetry(n, AllColumns)) : n \in LengthsNear(TargetPoints)}
               \cup {TelemetrySession(Telemetry(2 * TargetPoints, AllColumns \ {"RPM", "DRS"}))}]

GetTelemetry ==
    /\ req = NoRequest
    /\ UNCHANGED <<pending, served>>
    /\ \E race_round \in 1..MaxRound, r \in TelemetryRequests :
        LET out == get_driver_telemetry(SessionSeason, race_round, r.session_type,
                                        r.driver, r.lap_number, r.outcome)
        IN  /\ req' = [endpoint |-> "telemetry", season |-> SessionSeason,
                       race_round |-> race_round, session_type |-> r.session_type,
                       driver |-> r.driver, lap_number |-> r.lap_number]
            /\ calls' = out.calls
            /\ resp' = out.resp

----------------------------------------------------------------------------
(* /api/track/{season}/{race_round}                                        *)

TrackPoints == 300

\* sample_rate = max(1, len(telemetry) // 300)
TrackSampleRate(n) == IF n \div TrackPoints < 1 THEN 1 ELSE n \div TrackPoints

\* min(list) and max(list)
Min(x) == CHOOSE v \in {x[i] : i \in 1..Len(x)} : \A i \in 1..Len(x) : v <= x[i]
Max(x) == CHOOSE v \in {x[i] : i \in 1..Len(x)} : \A i \in 1..Len(x) : v >= x[i]

\* the dict of an exception caught by get_track_coordinates
TrackFailure(e) == [error |-> PyStr(StrExc(e)), status |-> "error"]

\* the part of get_track_coordinates after the fastest lap is found
TrackOfLap(session, lap) ==
    LET telemetry   == lap.Telemetry
        sample_rate == TrackSampleRate(telemetry.len)
        x_coords    == SliceStep(Column(telemetry, "X"), sample_rate)
        y_coords    == SliceStep(Column(telemetry, "Y"), sample_rate)
    IN  IF telemetry.t = "raise" THEN TrackFailure(telemetry.exc)
        ELSE IF telemetry.t = "None" \/ telemetry.len = 0
        THEN [error |-> PyStr("No telemetry data available")]
        ELSE IF "X" \notin telemetry.columns \/ "Y" \notin telemetry.columns
        THEN [error |-> PyStr("Position data not available in telemetry")]
        ELSE [event |-> session.event,
              coordinates |-> [x |-> x_coords, y |-> y_coords],
              bounds |-> [x_min |-> Min(x_coords), x_max |-> Max(x_coords),
                          y_min |-> Min(y_coords), y_max |-> Max(y_coords),
                          width |-> Max(x_coords) - Min(x_coords),
                          height |-> Max(y_coords) - Min(y_coords)],
              total_points |-> Len(x_coords),
              status |-> "success"]

get_track_coordinates(session) ==
    LET laps        == GetAttr(session, "laps")
        fastest_lap == pick_fastest(laps.rows)
    IN  IF laps.t = "raise" THEN TrackFailure(laps.exc)
        ELSE IF laps.t = "None" THEN TrackFailure(AttributeErrorOnNone)
        ELSE IF fastest_lap.t = "None" THEN [error |-> PyStr("No lap data available")]
        ELSE TrackOfLap(session, fastest_lap.row)

get_track_data(season, race_round, session_type, outcome) ==
    LET loaded     == load_session(season, race_round, Upper(session_type), TRUE, outcome)
        loadlog    == <<LoadCall(season, race_round, Upper(session_type), TRUE, outcome)>>
        track_data == get_track_coordinates(loaded.session)
    IN  IF Truthy(loaded.error)
        THEN [calls |-> loadlog, resp |-> HttpError(500, loaded.error)]
        ELSE IF DictGet(track_data, "status", "") = "error"
        THEN [calls |-> loadlog,
              resp  |-> HttpError(400, DictGet(track_data, "error", PyStr("Failed to get track data")))]
        ELSE [calls |-> loadlog,
              resp  |-> Ok(track_data @@ [season |-> season, round |-> race_round])]

\* what the library loads for a request to /api/track
TrackSessions ==
    {Raises(e) : e \in Exceptions}
    \cup {Session(Frame(<<>>), l) : l \in {Raises(Exc(<<"boom">>)), None, Frame(<<>>)}}
    \cup {TelemetrySession(tel) : tel \in ShortTelemetry}
    \cup {TelemetrySession(Telemetry(n, AllColumns)) : n \in LengthsNear(TrackPoints)}

GetTrack ==
    /\ req = NoRequest
    /\ UNCHANGED <<pending, served>>
    /\ \E race_round \in 1..MaxRound, session_type \in {<<"R">>, <<"q">>},
          outcome \in TrackSessions :
        LET out == get_track_data(SessionSeason, race_round, session_type, outcome)
        IN  /\ req' = [endpoint |-> "track", season |-> SessionSeason,
                       race_round |-> race_round, session_type |-> session_type]
            /\ calls' = out.calls
            /\ resp' = out.resp

----------------------------------------------------------------------------
(* /api/drivers/{season}                                                   *)

get_season_drivers(season, race_round, raceOutcome, qualiOutcome) ==
    LET race    == load_session(season, race_round, <<"R">>, FALSE, raceOutcome)
        quali   == load_session(season, race_round, <<"Q">>, FALSE, qualiOutcome)
        racelog == <<LoadCall(season, race_round, <<"R">>, FALSE, raceOutcome)>>
        bothlog == racelog \o <<LoadCall(season, race_round, <<"Q">>, FALSE, qualiOutcome)>>
        session == IF Truthy(race.error) THEN quali.session ELSE race.session
        drivers == get_driver_info(session)
        infolog == <<[fn |-> "get_driver_info", reads |-> drivers.reads]>>
    IN  IF Truthy(race.error) /\ Truthy(quali.error)
        THEN [calls |-> bothlog, resp |-> HttpError(500, quali.error)]
        ELSE [calls |-> (IF Truthy(race.error) THEN bothlog ELSE racelog) \o infolog,
              resp  |-> Ok([season |-> season, drivers |-> drivers.ret,
                            total_drivers |-> Len(drivers.ret), status |-> "success"])]

GetDrivers ==
    /\ req = NoRequest
    /\ UNCHANGED <<pending, served>>
    /\ \E race_round \in 1..MaxRound, raceOutcome \in DriverSessions,
          qualiOutcome \in DriverSessions :
        LET out == get_season_drivers(SessionSeason, race_round, raceOutcome, qualiOutcome)
        IN  /\ req' = [endpoint |-> "drivers", season |-> SessionSeason,
                       race_round |-> race_round]
            /\ calls' = out.calls
            /\ resp' = out.resp

----------------------------------------------------------------------------
(* /api/seasons                                                            *)

\* list(range(start, stop))
Range(start, stop) == [i \in 1..(IF stop > start THEN stop - start ELSE 0) |-> start + i - 1]

\* s[-n:], the last n elements, or all of s when it has fewer
LastN(s, n) == SubSeq(s, (IF Len(s) > n THEN Len(s) - n ELSE 0) + 1, Len(s))

\* get_available_seasons recommending the first three seasons
get_available_seasons_FirstThree(current_year) ==
    LET seasons == Range(FirstSeason, current_year + 1)
    IN  [seasons |-> seasons, total |-> Len(seasons),
         recommended |-> SubSeq(seasons, 1, IF Len(seasons) > 3 THEN 3 ELSE Len(seasons)),
         note |-> "Full telemetry available from 2018 onwards"]

get_available_seasons(current_year) ==
    LET seasons == Range(FirstSeason, current_year + 1)
    IN  [seasons |-> seasons, total |-> Len(seasons),
         recommended |-> LastN(seasons, 3),
         note |-> "Full telemetry available from 2018 onwards"]

GetSeasons ==
    /\ req = NoRequest
    /\ UNCHANGED <<pending, served>>
    /\ \E current_year \in ClockYears :
        /\ req' = [endpoint |-> "seasons", current_year |-> current_year]
        /\ calls' = <<>>
        /\ resp' = Ok(get_available_seasons(current_year))

----------------------------------------------------------------------------
(* The server                                                              *)

NoResponse == [code |-> 0, body |-> [status |-> "none"]]

\* a client whose request has not been handled
NotServed == [outcome |-> None, calls |-> <<>>, resp |-> NoResponse]

Init ==
    /\ req = NoRequest
    /\ calls = <<>>
    /\ resp = NoResponse
    /\ pending = {}
    /\ served = [c \in Clients |-> NotServed]

\* the response is sent and the handler's locals are dropped
Respond ==
    /\ req # NoRequest
    /\ req' = NoRequest
    /\ calls' = <<>>
    /\ resp' = NoResponse
    /\ UNCHANGED <<pending, served>>

Next ==
    \/ GetSeasons
    \/ GetRaces
    \/ GetSession
    \/ GetLaps
    \/ GetTelemetry
    \/ GetTrack
    \/ GetDrivers
    \/ Respond

Spec == Init /\ [][Next]_vars

----------------------------------------------------------------------------
(* Simultaneous requests to /api/laps for one session                      *)

\* what the library does for each of the simultaneous loads
ConcOutcomes ==
    {Raises(e) : e \in Exceptions} \cup
    {Session(Frame(<<>>), Frame(LapRows(n, 1))) : n \in 1..2}

\* up to MaxClients clients request the laps of the same session at once
ArriveTogether ==
    /\ req = NoRequest
    /\ pending = {}
    /\ \E k \in Clients, race_round \in 1..MaxRound, session_type \in OtherTypeInputs :
        /\ pending' = 1..k
        /\ req' = [endpoint |-> "laps", season |-> SessionSeason,
                   race_round |-> race_round, session_type |-> session_type,
                   driver |-> None, fastest_only |-> FALSE]
    /\ UNCHANGED <<calls, resp, served>>

\* the event loop runs the handler of one waiting request, in any order; the
\* handler has no await and runs to its return
HandleOne ==
    /\ pending # {}
    /\ \E c \in pending, outcome \in ConcOutcomes :
        LET out == get_lap_data(req.season, req.race_round, req.session_type,
                                req.driver, req.fastest_only, outcome, TRUE)
        IN  /\ served' = [served EXCEPT ![c] = [outcome |-> outcome, calls |-> out.calls,
                                                resp |-> out.resp]]
            /\ pending' = pending \ {c}
            /\ calls' = out.calls
            /\ resp' = out.resp
    /\ UNCHANGED req

\* every response is sent and the handlers' locals are dropped
RespondAll ==
    /\ req # NoRequest
    /\ pending = {}
    /\ req' = NoRequest
    /\ calls' = <<>>
    /\ resp' = NoResponse
    /\ served' = [c \in Clients |-> NotServed]
    /\ UNCHANGED pending

NextConc ==
    \/ ArriveTogether
    \/ HandleOne
    \/ RespondAll

SpecConc == Init /\ [][NextConc]_vars

----------------------------------------------------------------------------
(* Properties                                                              *)

\* C1: /api/races/{season} answers 400 exactly when season < 2018 or
\* season > current_year, and then get_race_schedule is not called; a season
\* inside [2018, current_year] is never answered 400.
C1_SeasonRange ==
    req.endpoint = "races" =>
        /\ resp.code = 400 <=> (req.season < 2018 \/ req.season > req.current_year)
        /\ resp.code = 400 => calls = <<>>
        /\ resp.code # 400 => \E i \in 1..Len(calls) : calls[i].fn = "get_race_schedule"

\* a season just above the current year was rejected
C1_Witness ==
    /\ req.endpoint = "races"
    /\ req.season = req.current_year + 1
    /\ req.season > 2018
    /\ resp.code = 400

\* C2: /api/session answers 400 without calling load_session when the
\* upper-cased session type is not one of FP1, FP2, FP3, Q, S, R; otherwise
\* (whatever the letter case) load_session is called with the upper-cased type.
C2_SessionType ==
    req.endpoint = "session" =>
        IF Upper(req.session_type) \in
               {<<"F", "P", "1">>, <<"F", "P", "2">>, <<"F", "P", "3">>, <<"Q">>, <<"S">>, <<"R">>}
        THEN /\ resp.code # 400
             /\ Len(calls) >= 1
             /\ calls[1].fn = "load_session"
             /\ calls[1].session_type = Upper(req.session_type)
        ELSE /\ resp.code = 400
             /\ calls = <<>>

\* a lower-case session type passed the validation and was loaded as FP2
C2_Witness ==
    /\ req.endpoint = "session"
    /\ req.session_type = <<"f", "p", "2">>
    /\ Len(calls) >= 1
    /\ calls[1].fn = "load_session"
    /\ calls[1].session_type = <<"F", "P", "2">>

\* the session a handler loaded first, and the rows of its laps
LoadedSession == calls[1].ret.session
LoadedLapRows == LoadedSession.laps.rows

\* the request loaded a session whose laps are a DataFrame
LapsLoaded ==
    /\ Len(calls) >= 1
    /\ calls[1].fn = "load_session"
    /\ LoadedSession.t = "Session"
    /\ LoadedSession.laps.t = "Frame"

\* the row of the loaded session a lap record was built from
SourceRows(rec) ==
    {i \in 1..Len(LoadedLapRows) :
        /\ LoadedLapRows[i].Driver = rec.driver
        /\ LoadedLapRows[i].LapNumber = rec.lap_number}

\* C8: in every lap record of get_all_laps, lap_time_seconds is null exactly
\* when lap_time is null, and both are null exactly when the lap's LapTime
\* is NaT.
C8_LapTimeNull ==
    (req.endpoint = "laps" /\ ~req.fastest_only /\ resp.code = 200) =>
        \A i \in 1..Len(resp.body.laps) :
            LET rec == resp.body.laps[i]
            IN  /\ rec.lap_time = None <=> rec.lap_time_seconds = None
                /\ LapsLoaded
                /\ \A j \in SourceRows(rec) :
                       rec.lap_time = None <=> LoadedLapRows[j].LapTime = NaT

\* a response listing an untimed lap and a timed lap
C8_Witness ==
    /\ req.endpoint = "laps"
    /\ ~req.fastest_only
    /\ resp.code = 200
    /\ \E i, j \in 1..Len(resp.body.laps) :
           /\ resp.body.laps[i].lap_time = None
           /\ resp.body.laps[i].lap_time_seconds = None
           /\ resp.body.laps[j].lap_time # None
           /\ resp.body.laps[j].lap_time_seconds # None

\* the milliseconds a lap_time text stands for
TextMs(text) == (text.v.minutes * 60 + text.v.seconds) * 1000 + text.v.millis

\* C9: with fastest_only=true /api/laps returns at most 20 laps, all quick
\* laps of the session, in ascending order of lap time, with rank fields
\* 1..N in list order and N = total_laps.
C9_FastestLaps ==
    (req.endpoint = "laps" /\ req.fastest_only /\ resp.code = 200) =>
        LET laps == resp.body.laps
        IN  /\ Len(laps) <= 20
            /\ resp.body.total_laps = Len(laps)
            /\ \A i \in 1..Len(laps) : laps[i].rank = i
            /\ \A i \in 1..(Len(laps) - 1) :
                   TextMs(laps[i].lap_time) <= TextMs(laps[i + 1].lap_time)
            /\ \A i \in 1..Len(laps) :
                   /\ LapsLoaded
                   /\ \E j \in SourceRows(laps[i]) :
                          /\ LoadedLapRows[j].LapTime # NaT
                          /\ LoadedLapRows[j].LapTime.ms = TextMs(laps[i].lap_time)
                   /\ \A j \in 1..Len(LoadedLapRows) :
                          LoadedLapRows[j].LapTime # NaT =>
                              TextMs(laps[i].lap_time) * 100 < LoadedLapRows[j].LapTime.ms * 107

\* more than 20 quick laps, out of order in the session, were cut to 20
C9_Witness ==
    /\ req.endpoint = "laps"
    /\ req.fastest_only
    /\ resp.code = 200
    /\ Len(resp.body.laps) = 20
    /\ LapsLoaded
    /\ Len(LoadedLapRows) > 20
    /\ \E i \in 1..(Len(LoadedLapRows) - 1) :
           /\ LoadedLapRows[i].LapTime # NaT
           /\ LoadedLapRows[i + 1].LapTime # NaT
           /\ LoadedLapRows[i].LapTime.ms > LoadedLapRows[i + 1].LapTime.ms

\* the body of an HTTP error: {error: true, status_code, message, timestamp}
ErrorShape(body) ==
    /\ DOMAIN body = {"error", "status_code", "message", "timestamp"}
    /\ body.error = TRUE

\* the laps of the loaded session driven by the requested driver
RequestedDriverRows ==
    {i \in 1..Len(LoadedLapRows) : LoadedLapRows[i].Driver = Upper(req.driver)}

\* C3: telemetry requested for a driver without laps in the session, or for
\* a lap number the driver has no lap of, is answered with HTTP 400 and the
\* error body, never with a 200.
C3_TelemetryNotFound ==
    (/\ req.endpoint = "telemetry"
     /\ LapsLoaded
     /\ \/ RequestedDriverRows = {}
        \/ /\ req.lap_number # None
           /\ \A i \in RequestedDriverRows : LoadedLapRows[i].LapNumber # req.lap_number.v)
    => /\ resp.code = 400
       /\ ErrorShape(resp.body)
       /\ resp.body.status_code = 400

\* the telemetry response carries the sampled channels
TelemetrySuccess ==
    /\ req.endpoint = "telemetry"
    /\ resp.code = 200
    /\ "status" \in DOMAIN resp.body
    /\ resp.body.status = "success"

\* the telemetry of the lap a telemetry response reports
SourceTelemetry ==
    LET rec == [driver |-> resp.body.driver, lap_number |-> resp.body.lap_number]
    IN  LoadedLapRows[CHOOSE i \in SourceRows(rec) : TRUE].Telemetry

\* the telemetry column behind each channel of the response
ChannelColumn ==
    [distance |-> "Distance", speed |-> "Speed", throttle |-> "Throttle",
     brake |-> "Brake", rpm |-> "RPM", gear |-> "nGear", drs |-> "DRS",
     x |-> "X", y |-> "Y"]

\* C4: for telemetry of L >= 1 samples every present channel has exactly
\* ceil(L / N) elements, N = max(1, L // 500), namely the samples of index
\* 0, N, 2N, ...
C4_SubsampleLength ==
    TelemetrySuccess =>
        LET L == resp.body.data_points
            N == IF L \div 500 < 1 THEN 1 ELSE L \div 500
        IN  /\ L >= 1
            /\ L = SourceTelemetry.len
            /\ \A ch \in DOMAIN ChannelColumn :
                   ChannelColumn[ch] \in SourceTelemetry.columns =>
                       LET a == resp.body.telemetry[ch]
                       IN  /\ Len(a) * N >= L
                           /\ (Len(a) - 1) * N < L
                           /\ \A k \in 1..Len(a) :
                                  a[k] = Sample(ChannelColumn[ch], (k - 1) * N)

\* 1001 samples were sampled at every 2nd index into 501 points
C4_Witness ==
    /\ TelemetrySuccess
    /\ resp.body.data_points = 1001
    /\ Len(resp.body.telemetry.speed) = 501
    /\ resp.body.telemetry.speed[501] = 1000

C6_LoadFailure ==
    (/\ req.endpoint \in {"session", "laps", "telemetry", "track"}
     /\ Len(calls) >= 1
     /\ calls[1].fn = "load_session"
     /\ calls[1].ret.error # None)
    => /\ resp.code = 500
       /\ resp.body.message = calls[1].ret.error

\* the session an extraction ran on raised on its results or its laps
ExtractionRaised ==
    /\ Len(calls) >= 1
    /\ calls[1].fn = "load_session"
    /\ LoadedSession.t = "Session"
    /\ \/ LoadedSession.results.t = "raise"
       \/ LoadedSession.laps.t = "raise"

\* C7: a response is the full payload or an error payload: a session whose
\* results or laps raise is not answered with status "success" and an empty
\* list, and no body has both the success fields and an "error" field.
C7_NoPartialResults ==
    /\ ("error" \in DOMAIN resp.body) => ("season" \notin DOMAIN resp.body)
    /\ (req.endpoint = "session" /\ resp.code = 200 /\ ExtractionRaised) =>
           ~(LoadedSession.results.t = "raise" /\ resp.body.results = <<>>)
    /\ (req.endpoint = "laps" /\ resp.code = 200 /\ ExtractionRaised) =>
           ~(LoadedSession.laps.t = "raise" /\ resp.body.laps = <<>>)

\* the session get_driver_info was called on, and the attributes it read
InfoSession == calls[Len(calls) - 1].ret.session
InfoReads == calls[Len(calls)].reads

\* C10: for a loaded session without results (empty or None) and with laps,
\* get_driver_info returns one entry per distinct driver code of the laps;
\* with results it returns one entry per result row and does not read the
\* laps.  /api/drivers and /api/session return that list.
C10_DriverFallback ==
    (/\ req.endpoint \in {"drivers", "session"}
     /\ resp.code = 200
     /\ InfoSession.t = "Session")
    => LET drivers == resp.body.drivers
           results == InfoSession.results
           laps    == InfoSession.laps
       IN  /\ (results.t = "Frame" /\ results.rows # <<>>) =>
                  /\ Len(drivers) = Len(results.rows)
                  /\ \A i \in 1..Len(drivers) :
                         drivers[i].driver_code = results.rows[i].Abbreviation
                  /\ InfoReads = <<"results">>
           /\ (/\ results.t = "None" \/ (results.t = "Frame" /\ results.rows = <<>>)
               /\ laps.t = "Frame"
               /\ laps.rows # <<>>) =>
                  /\ drivers # <<>>
                  /\ {drivers[i].driver_code : i \in 1..Len(drivers)}
                         = {laps.rows[i].Driver : i \in 1..Len(laps.rows)}
                  /\ Len(drivers) = Cardinality({laps.rows[i].Driver : i \in 1..Len(laps.rows)})

\* /api/drivers listed the two drivers of three laps of a qualifying session
\* without results, loaded after the race failed
C10_Witness ==
    /\ req.endpoint = "drivers"
    /\ resp.code = 200
    /\ Len(calls) = 3
    /\ InfoSession.t = "Session"
    /\ InfoSession.results = Frame(<<>>)
    /\ InfoSession.laps.t = "Frame"
    /\ Len(InfoSession.laps.rows) = 3
    /\ Len(resp.body.drivers) = 2
    /\ resp.body.total_drivers = 2

\* the timed laps of the requested driver, and the fastest of them
RequestedTimedRows == {i \in RequestedDriverRows : LoadedLapRows[i].LapTime # NaT}
RequestedFastestRows ==
    {i \in RequestedTimedRows :
        \A j \in RequestedTimedRows : LoadedLapRows[i].LapTime.ms <= LoadedLapRows[j].LapTime.ms}

\* C11: with lap_number given (any int, 0 included) the telemetry is that of
\* the driver's lap of exactly that number, or the answer is an error; the
\* fastest lap is selected only when lap_number is absent.
C11_LapSelection ==
    (req.endpoint = "telemetry" /\ LapsLoaded /\ resp.code = 200) =>
        IF req.lap_number # None
        THEN \/ "error" \in DOMAIN resp.body
             \/ /\ TelemetrySuccess
                /\ resp.body.lap_number = req.lap_number.v
                /\ \E i \in RequestedDriverRows :
                       LoadedLapRows[i].LapNumber = req.lap_number.v
        ELSE \/ "error" \in DOMAIN resp.body
             \/ /\ TelemetrySuccess
                /\ \E i \in RequestedFastestRows :
                       LoadedLapRows[i].LapNumber = resp.body.lap_number

\* the fastest lap of the session loaded for /api/track, if any lap is timed
TimedRows == {i \in 1..Len(LoadedLapRows) : LoadedLapRows[i].LapTime # NaT}
FastestRows ==
    {i \in TimedRows :
        \A j \in TimedRows : LoadedLapRows[i].LapTime.ms <= LoadedLapRows[j].LapTime.ms}

\* the telemetry of a lap lacks the position channels or is no data at all
NoPositionData(telemetry) ==
    \/ telemetry.t = "None"
    \/ /\ telemetry.t = "Frame"
       /\ \/ telemetry.len = 0
          \/ "X" \notin telemetry.columns
          \/ "Y" \notin telemetry.columns

\* C12: /api/track answers HTTP 400 with the error body, never a 200, when
\* the session has no fastest lap, the lap has no telemetry, or the
\* telemetry lacks the X or the Y column.
C12_TrackFailsExplicitly ==
    (/\ req.endpoint = "track"
     /\ LapsLoaded
     /\ \/ FastestRows = {}
        \/ \E i \in FastestRows : NoPositionData(LoadedLapRows[i].Telemetry))
    => /\ resp.code = 400
       /\ ErrorShape(resp.body)
       /\ resp.body.status_code = 400

\* the request selects a lap of the driver: the lap of the given number, or
\* with lap_number absent or 0 the fastest timed lap
SelectedRows ==
    IF req.lap_number # None /\ req.lap_number.v # 0
    THEN {i \in RequestedDriverRows : LoadedLapRows[i].LapNumber = req.lap_number.v}
    ELSE RequestedFastestRows

\* a lap was selected and its telemetry is a DataFrame with samples
TelemetryAvailable ==
    /\ req.endpoint = "telemetry"
    /\ LapsLoaded
    /\ SelectedRows # {}
    /\ \A i \in SelectedRows :
           /\ LoadedLapRows[i].Telemetry.t = "Frame"
           /\ LoadedLapRows[i].Telemetry.len > 0

\* the columns of the selected lap's telemetry
SelectedColumns == LoadedLapRows[CHOOSE i \in SelectedRows : TRUE].Telemetry.columns

\* C13 as claimed: whichever of the nine channels' columns are absent, the
\* answer is status "success" with those channels empty and the others
\* populated.
C13_MissingChannelsEmpty ==
    TelemetryAvailable =>
        /\ TelemetrySuccess
        /\ \A ch \in DOMAIN ChannelColumn :
               IF ChannelColumn[ch] \in SelectedColumns
               THEN resp.body.telemetry[ch] # <<>>
               ELSE resp.body.telemetry[ch] = <<>>

\* C13 as amended: an absent rpm, gear, drs, x or y column gives an empty
\* array in a "success" answer whose other channels are populated; an absent
\* distance, speed, throttle or brake column gives HTTP 400.
C13_OptionalChannelsEmpty ==
    TelemetryAvailable =>
        IF {"Distance", "Speed", "Throttle", "Brake"} \subseteq SelectedColumns
        THEN /\ TelemetrySuccess
             /\ \A ch \in DOMAIN ChannelColumn :
                    IF ChannelColumn[ch] \in SelectedColumns
                    THEN resp.body.telemetry[ch] # <<>>
                    ELSE resp.body.telemetry[ch] = <<>>
        ELSE /\ resp.code = 400
             /\ ErrorShape(resp.body)

\* telemetry without the RPM column came back with rpm empty, speed filled
C13_Witness ==
    /\ TelemetrySuccess
    /\ TelemetryAvailable
    /\ "RPM" \notin SelectedColumns
    /\ "X" \in SelectedColumns
    /\ resp.body.telemetry.rpm = <<>>
    /\ resp.body.telemetry.speed # <<>>
    /\ resp.body.telemetry.x # <<>>

\* the positions of the call log that hold a load_session call
LoadCalls == {i \in 1..Len(calls) : calls[i].fn = "load_session"}

\* the caller of the load of position i took the failure branch: the drivers
\* endpoint goes on to the qualifying load after a failed race load, every
\* other failed load ends the request with HTTP 500 and the error string
FailureDetected(i) ==
    \/ /\ req.endpoint = "drivers"
       /\ i = 1
       /\ Len(calls) >= 2
       /\ calls[2].fn = "load_session"
       /\ calls[2].session_type = <<"Q">>
    \/ /\ i = Len(calls)
       /\ resp.code = 500
       /\ resp.body.message = calls[i].ret.error

\* C14: every load_session call returns (session, None) with a session, or
\* (None, message) when the library raised, never both and never neither,
\* and the caller takes its failure branch on every (None, message).
C14_SessionOrError ==
    \A i \in LoadCalls :
        /\ (calls[i].ret.session = None) # (calls[i].ret.error = None)
        /\ calls[i].ret.error # None => calls[i].ret.error.t = "str"
        /\ calls[i].ret.error # None => FailureDetected(i)
        /\ calls[i].ret.error = None => ~FailureDetected(i)

\* the drivers list of the response comes from the session of load i
DriversFrom(i) ==
    /\ calls[i].ret.session # None
    /\ calls[Len(calls)].fn = "get_driver_info"
    /\ resp.code = 200
    /\ resp.body.drivers = get_driver_info(calls[i].ret.session).ret

\* C15: /api/drivers loads the race session first and loads qualifying if
\* and only if the race load returned an error; at most two loads, never two
\* of one type; the drivers come from the first session that loaded; HTTP
\* 500 with the qualifying error is returned exactly when both loads failed.
C15_RaceThenQualifying ==
    req.endpoint = "drivers" =>
        /\ LoadCalls # {}
        /\ calls[1].fn = "load_session"
        /\ calls[1].session_type = <<"R">>
        /\ Cardinality(LoadCalls) <= 2
        /\ (2 \in LoadCalls) <=> (calls[1].ret.error # None)
        /\ (2 \in LoadCalls) => calls[2].session_type = <<"Q">>
        /\ calls[1].ret.error = None => DriversFrom(1)
        /\ (2 \in LoadCalls /\ calls[2].ret.error = None) => DriversFrom(2)
        /\ (2 \in LoadCalls /\ calls[2].ret.error # None) =>
               /\ resp.code = 500
               /\ resp.body.message = calls[2].ret.error
        /\ resp.code = 500 => (2 \in LoadCalls /\ calls[2].ret.error # None)

\* the events of a schedule that are not tests, in the schedule's order
RaceEvents(schedule) ==
    SelectSeq(schedule.rows, LAMBDA event : ~ContainsTesting(event.EventName))

\* C16: get_race_schedule returns status "success" with one record per event
\* that is not a test, in order, and total_races their number, or, when the
\* library or the loop raised, status "error" with no races, total_races 0
\* and the exception text; /api/races answers the error with HTTP 500 and
\* that text, the success with the result.
C16_ScheduleNeverRaises ==
    (req.endpoint = "races" /\ calls # <<>>) =>
        LET schedule == calls[1].schedule
            result   == calls[1].ret
        IN  /\ result.status \in {"success", "error"}
            /\ schedule.t = "raise" =>
                   /\ result.status = "error"
                   /\ result.error_message = PyStr(StrExc(schedule.exc))
            /\ result.status = "error" =>
                   /\ result.races = <<>>
                   /\ result.total_races = 0
                   /\ resp.code = 500
                   /\ ErrorShape(resp.body)
                   /\ resp.body.message = result.error_message
            /\ result.status = "success" =>
                   /\ schedule.t = "Frame"
                   /\ Len(result.races) = Len(RaceEvents(schedule))
                   /\ \A i \in 1..Len(result.races) :
                          /\ result.races[i].name = RaceEvents(schedule)[i].EventName
                          /\ result.races[i].round = RaceEvents(schedule)[i].RoundNumber.v
                          /\ ~ContainsTesting(result.races[i].name)
                   /\ result.total_races = Len(result.races)
                   /\ resp = Ok(result)

\* a schedule of a test and a race was answered with the race alone
C16_Witness ==
    /\ req.endpoint = "races"
    /\ calls # <<>>
    /\ calls[1].schedule.t = "Frame"
    /\ Len(calls[1].schedule.rows) = 2
    /\ ContainsTesting(calls[1].schedule.rows[1].EventName)
    /\ resp.code = 200
    /\ resp.body.total_races = 1
    /\ resp.body.races[1].round = 2

\* C17: /api/seasons lists the years 2018..current_year in ascending order
\* without gap or duplicate; total is the length of the list and recommended
\* its last 3 entries, or the whole list when it has fewer than 3.
C17_Seasons ==
    req.endpoint = "seasons" =>
        /\ resp.code = 200
        /\ LET seasons     == resp.body.seasons
               recommended == resp.body.recommended
               n           == Len(seasons)
               k           == Len(recommended)
           IN  /\ {seasons[i] : i \in 1..n} = 2018..req.current_year
               /\ \A i, j \in 1..n : i < j => seasons[i] < seasons[j]
               /\ resp.body.total = n
               /\ k = (IF n < 3 THEN n ELSE 3)
               /\ \A i \in 1..k : recommended[i] = seasons[n - k + i]

\* five seasons were listed and the last three recommended
C17_Witness ==
    /\ req.endpoint = "seasons"
    /\ req.current_year = 2022
    /\ resp.code = 200
    /\ resp.body.total = 5
    /\ resp.body.recommended = <<2020, 2021, 2022>>

\* the clients whose request has been handled
Served == {c \in Clients : served[c].calls # <<>>}

\* the load_session calls of a client's handler
LoadsOf(c) == {n \in 1..Len(served[c].calls) : served[c].calls[n].fn = "load_session"}

\* C18: of k simultaneous requests for one session each makes its own
\* load_session call, whatever the order they are handled in, and each
\* response follows from the outcome of its own load: its own error message
\* in a 500, the laps of its own session in a 200, and equal outcomes give
\* equal responses whatever the other loads did.
C18_IndependentLoads ==
    \A c \in Served :
        LET own == served[c].outcome
            ret == served[c].calls[1].ret
        IN  /\ Cardinality(LoadsOf(c)) = 1
            /\ own.t = "raise" =>
                   /\ ret.session = None
                   /\ ret.error = PyStr(StrExc(own.exc))
                   /\ StrExc(own.exc) # "" =>
                          /\ served[c].resp.code = 500
                          /\ served[c].resp.body.message = PyStr(StrExc(own.exc))
            /\ own.t = "Session" =>
                   /\ ret.session = own
                   /\ ret.error = None
                   /\ served[c].resp.code = 200
                   /\ served[c].resp.body.total_laps = Len(own.laps.rows)
            /\ \A d \in Served :
                   served[d].outcome = own => served[d].resp = served[c].resp

\* three simultaneous requests were all handled, the later-numbered client
\* first: one load failed, the two others loaded sessions of different laps
C18_Witness ==
    /\ pending = {}
    /\ Served = 1..3
    /\ served[1].resp.code = 500
    /\ served[2].resp.code = 200
    /\ served[3].resp.code = 200
    /\ served[2].resp.body.total_laps # served[3].resp.body.total_laps
    /\ calls = served[1].calls

\* C19: in a successful telemetry answer sampled_points <= data_points, the
\* distance, speed, throttle and brake arrays have sampled_points elements
\* and each of rpm, gear, drs, x, y has sampled_points elements or none.
C19_ChannelsAligned ==
    TelemetrySuccess =>
        LET channels == resp.body.telemetry
            sampled  == resp.body.sampled_points
        IN  /\ sampled <= resp.body.data_points
            /\ \A ch \in {"distance", "speed", "throttle", "brake"} :
                   Len(channels[ch]) = sampled
            /\ \A ch \in {"rpm", "gear", "drs", "x", "y"} :
                   Len(channels[ch]) \in {sampled, 0}

\* 1000 samples without RPM and DRS columns: 500 points in speed and gear,
\* none in rpm and drs
C19_Witness ==
    /\ TelemetrySuccess
    /\ resp.body.data_points = 1000
    /\ resp.body.sampled_points = 500
    /\ Len(resp.body.telemetry.speed) = 500
    /\ Len(resp.body.telemetry.gear) = 500
    /\ resp.body.telemetry.rpm = <<>>
    /\ resp.body.telemetry.drs = <<>>

\* the rows of the loaded session that are quick laps: timed, and faster
\* than 107% of the fastest timed lap of any driver
QuickRows ==
    {i \in TimedRows : \A j \in TimedRows :
        LoadedLapRows[i].LapTime.ms * 100 < LoadedLapRows[j].LapTime.ms * 107}

\* the rows of the loaded session driven by the driver of the filter
FilterRows == {i \in 1..Len(LoadedLapRows) : LoadedLapRows[i].Driver = Upper(req.driver.v)}

====
